---- MODULE Spec2Model ----
(***************************************************************************)
(* tme: a command-line timestamp decoder (src/src/main.rs).                *)
(*                                                                         *)
(* The program reads an optional comma-delimited list of timestamp tokens, *)
(* a unit (`format`) and a `now` flag; every token that parses as an i64   *)
(* is decoded under the unit into an instant and printed, then the current *)
(* time is printed when `now` is set.                                      *)
(*                                                                         *)
(* 64-bit integers are kept exact.  TLC's integers are 32 bits wide, so an *)
(* i64 is a sequence of seven base-1000 limbs, most significant first; the *)
(* first limb is signed and the other six are in 0..999 ("1000's           *)
(* complement"), so that the value of <<t, l2, .., l7>> is                 *)
(*      t * 1000^6 + l2 * 1000^5 + ... + l7                                *)
(* and the numeric order is the lexicographic order of the limbs.  Every   *)
(* scale factor of the program (10^3, 10^6, 10^9) is a power of the base.  *)
(*                                                                         *)
(* Strings are sequences of one-character strings.                         *)
(***************************************************************************)
EXTENDS Integers, Sequences, FiniteSets, TLC

(***************************************************************************)
(* Limb arithmetic                                                         *)
(***************************************************************************)

RECURSIVE LexLess(_, _, _)
LexLess(a, b, i) ==
    IF i > Len(a) THEN FALSE
    ELSE IF a[i] # b[i] THEN a[i] < b[i]
    ELSE LexLess(a, b, i + 1)

\* a < b and a <= b on limb sequences of the same length.
Less(a, b) == LexLess(a, b, 1)

Leq(a, b) == a = b \/ Less(a, b)

\* -a
Neg(a) ==
    LET n == Len(a)
        nz == {i \in 2..n : a[i] # 0}
    IN  IF nz = {}
        THEN [i \in 1..n |-> IF i = 1 THEN 0 - a[1] ELSE 0]
        ELSE LET k == CHOOSE i \in nz : \A j \in nz : j <= i
             IN  [i \in 1..n |->
                    IF i = 1 THEN 0 - a[1] - 1
                    ELSE IF i < k THEN 999 - a[i]
                    ELSE IF i = k THEN 1000 - a[i]
                    ELSE 0]

\* a + d for a small machine integer d (|d| < 1000), carried limb by limb.
RECURSIVE AddAt(_, _, _)
AddAt(a, i, d) ==
    IF i = 1 THEN [a EXCEPT ![1] = a[1] + d]
    ELSE LET s == a[i] + d
         IN  IF s < 0 THEN AddAt([a EXCEPT ![i] = s + 1000], i - 1, -1)
             ELSE IF s > 999 THEN AddAt([a EXCEPT ![i] = s - 1000], i - 1, 1)
             ELSE [a EXCEPT ![i] = s]

AddSmall(a, d) == AddAt(a, Len(a), d)

\* i64::div_euclid(a, 1000^k): the k lowest limbs are dropped and the sign
\* is extended (floor division, since the low limbs are never negative).
DivEuclid(a, k) ==
    LET n == Len(a)
    IN  IF k = 0 THEN a
        ELSE [i \in 1..n |->
                IF i > k + 1 THEN a[i - k]
                ELSE IF i = k + 1 THEN (IF a[1] < 0 THEN a[1] + 1000 ELSE a[1])
                ELSE IF a[1] >= 0 THEN 0
                ELSE IF i = 1 THEN -1
                ELSE 999]

\* i64::rem_euclid(a, 1000^k) for k <= 3: in 0 .. 1000^k - 1, a machine integer.
RECURSIVE RemEuclid(_, _)
RemEuclid(a, k) ==
    IF k = 0 THEN 0
    ELSE RemEuclid(a, k - 1) + a[Len(a) - k + 1] * (1000 ^ (k - 1))

\* a * 1000 + low, for 0 <= low < 1000 (no i64 overflow for |a| < 10^15).
MulAdd1000(a, low) ==
    LET n == Len(a)
    IN  [i \in 1..n |->
            IF i = 1 THEN a[1] * 1000 + a[2]
            ELSE IF i < n THEN a[i + 1]
            ELSE low]

Zero == <<0, 0, 0, 0, 0, 0, 0>>

\* i64::MAX = 9223372036854775807 and i64::MIN = -9223372036854775808
I64Max == <<9, 223, 372, 36, 854, 775, 807>>

I64MinMagnitude == <<9, 223, 372, 36, 854, 775, 808>>

I64Min == Neg(I64MinMagnitude)

(***************************************************************************)
(* Strings: str::trim, i64::from_str, Display for i64                      *)
(***************************************************************************)

DigitChars == <<"0", "1", "2", "3", "4", "5", "6", "7", "8", "9">>

IsDigit(c) == \E d \in 1..10 : DigitChars[d] = c

DigitVal(c) == (CHOOSE d \in 1..10 : DigitChars[d] = c) - 1

\* char::is_whitespace, on the characters of the model's alphabet.
IsWhitespace(c) == c = " "

RECURSIVE TrimStart(_)
TrimStart(s) ==
    IF s # <<>> /\ IsWhitespace(Head(s)) THEN TrimStart(Tail(s)) ELSE s

RECURSIVE TrimEnd(_)
TrimEnd(s) ==
    IF s # <<>> /\ IsWhitespace(s[Len(s)])
    THEN TrimEnd(SubSeq(s, 1, Len(s) - 1))
    ELSE s

\* str::trim
Trim(s) == TrimEnd(TrimStart(s))

RECURSIVE StripZeros(_)
StripZeros(ds) ==
    IF Len(ds) > 1 /\ Head(ds) = "0" THEN StripZeros(Tail(ds)) ELSE ds

\* The value of at most 21 decimal digits, as seven limbs.
Magnitude(ds) ==
    LET pad == [i \in 1..(21 - Len(ds)) |-> "0"] \o ds
    IN  [i \in 1..7 |->
            100 * DigitVal(pad[3 * i - 2]) + 10 * DigitVal(pad[3 * i - 1])
                + DigitVal(pad[3 * i])]

ParseOk(v) == [ok |-> TRUE, val |-> v]

ParseErr(k) == [ok |-> FALSE, kind |-> k]

\* <i64 as FromStr>::from_str (core::num), the result of val.parse::<i64>():
\* an optional single sign, then one or more ASCII digits, within the range
\* of i64.  Nothing is trimmed.
ParseI64(s) ==
    IF s = <<>> THEN ParseErr("Empty")
    ELSE LET neg == Head(s) = "-"
             signed == Head(s) \in {"+", "-"}
             ds == IF signed THEN Tail(s) ELSE s
         IN  IF ds = <<>> \/ \E i \in 1..Len(ds) : ~IsDigit(ds[i])
             THEN ParseErr("InvalidDigit")
             ELSE LET sig == StripZeros(ds)
                      over == IF neg THEN "NegOverflow" ELSE "PosOverflow"
                  IN  IF Len(sig) > 19 THEN ParseErr(over)
                      ELSE LET m == Magnitude(sig)
                           IN  IF neg
                               THEN IF Leq(m, I64MinMagnitude)
                                    THEN ParseOk(Neg(m))
                                    ELSE ParseErr(over)
                               ELSE IF Leq(m, I64Max)
                                    THEN ParseOk(m)
                                    ELSE ParseErr(over)

\* The three decimal digits of one limb.
LimbDigits(l) ==
    <<DigitChars[(l \div 100) + 1], DigitChars[((l \div 10) % 10) + 1],
      DigitChars[(l % 10) + 1]>>

RECURSIVE AllDigits(_)
AllDigits(m) ==
    IF m = <<>> THEN <<>> ELSE LimbDigits(Head(m)) \o AllDigits(Tail(m))

\* Display that loses the sign.
DisplayUnsigned(a) == StripZeros(AllDigits(IF a[1] < 0 THEN Neg(a) ELSE a))

\* <i64 as Display>::fmt, the "{ts}" of the report: canonical decimal, a
\* "-" for a negative value, no "+", no leading zeros.
Display(a) ==
    IF a[1] < 0
    THEN <<"-">> \o StripZeros(AllDigits(Neg(a)))
    ELSE StripZeros(AllDigits(a))

(***************************************************************************)
(* chrono: DateTime<Utc> construction and accessors                        *)
(***************************************************************************)

\* DateTime::<Utc>::MAX_UTC = +262142-12-31T23:59:59.999999999Z and
\* DateTime::<Utc>::MIN_UTC = -262143-01-01T00:00:00Z, in whole seconds
\* since the epoch: 8210266876799 and -8334601315200.
MaxSecs == <<0, 0, 8, 210, 266, 876, 799>>

MinSecs == Neg(<<0, 0, 8, 334, 601, 315, 200>>)

None == [some |-> FALSE]

Some(v) == [some |-> TRUE, val |-> v]

\* An instant: whole seconds since the epoch (limbs) and the nanoseconds
\* into that second (0 .. 999999999, a machine integer).
Instant(s, n) == [secs |-> s, nsecs |-> n]

\* from_timestamp with the last representable second left out.
FromTimestampExclusive(secs, nsecs) ==
    IF Leq(MinSecs, secs) /\ Less(secs, MaxSecs)
    THEN Some(Instant(secs, nsecs))
    ELSE None

\* DateTime::<Utc>::from_timestamp(secs, nsecs): None outside the
\* representable dates.
FromTimestamp(secs, nsecs) ==
    IF Leq(MinSecs, secs) /\ Leq(secs, MaxSecs)
    THEN Some(Instant(secs, nsecs))
    ELSE None

\* DateTime::<Utc>::from_timestamp_millis
FromTimestampMillis(ms) ==
    FromTimestamp(DivEuclid(ms, 1), RemEuclid(ms, 1) * 1000000)

\* DateTime::<Utc>::from_timestamp_micros
FromTimestampMicros(us) ==
    FromTimestamp(DivEuclid(us, 2), RemEuclid(us, 2) * 1000)

\* DateTime::<Utc>::from_timestamp_nanos: the same construction, unwrapped
\* inside chrono (every i64 of nanoseconds is a representable date).
FromTimestampNanos(ns) ==
    FromTimestamp(DivEuclid(ns, 3), RemEuclid(ns, 3))

\* DateTime::timestamp
Timestamp(dt) == dt.secs

\* timestamp_millis without the milliseconds into the second.
TimestampMillisWhole(dt) == MulAdd1000(dt.secs, 0)

\* DateTime::timestamp_millis: timestamp() * 1000 + timestamp_subsec_millis()
TimestampMillis(dt) == MulAdd1000(dt.secs, dt.nsecs \div 1000000)

(***************************************************************************)
(* The program's types                                                     *)
(***************************************************************************)

Formats == {"seconds", "milliseconds", "microseconds", "nanoseconds"}

\* Format::symbol ("mu" stands for the one character U+03BC).
Symbol(f) ==
    CASE f = "seconds" -> <<"s">>
      [] f = "milliseconds" -> <<"m", "s">>
      [] f = "microseconds" -> <<"mu", "s">>
      [] f = "nanoseconds" -> <<"n", "s">>

\* Times::new: local and utc are the same instant (local differs only in
\* the zone it is rendered in).
TimesNew(dt) ==
    [local |-> dt, utc |-> dt, unix_s |-> Timestamp(dt),
     unix_ms |-> TimestampMillis(dt)]

\* The match on cli.format in the for_each closure: the instant, or None
\* where the code's expect("input should be a valid time") panics.
Decode(f, ts) ==
    CASE f = "seconds" -> FromTimestamp(ts, 0)
      [] f = "milliseconds" -> FromTimestampMillis(ts)
      [] f = "microseconds" -> FromTimestampMicros(ts)
      [] f = "nanoseconds" -> FromTimestampNanos(ts)

\* println!("({ts} {sym}): {time:#?}"): the text between the parentheses
\* and the dumped Times.
TokenReport(f, ts, dt) ==
    [head |-> Display(ts) \o <<" ">> \o Symbol(f), time |-> TimesNew(dt)]

\* println!("(now): {:#?}")
NowReport(dt) == [head |-> <<"n", "o", "w">>, time |-> TimesNew(dt)]

\* log::error!("Could not convert \"{val}\" into i64: {err:?}")
Diagnostic(val, kind) == [token |-> val, err |-> kind]

(***************************************************************************)
(* Inputs                                                                  *)
(***************************************************************************)

\* The longest token list of the batch runs.
MaxTokens == 3

\* How far around each boundary value the single-token runs reach.
Spread == 2

\* cli.timestamp when the argument is absent.
NoTimestamp == <<"None">>

\* Tokens of the batch runs: empty, whitespace only, not a number, plain,
\* padded, signed, and the largest i64 (out of range for every unit but
\* nanoseconds).
TokenPool ==
    { <<>>, <<" ">>, <<"a", "b", "c">>, <<"5">>, <<" ", "5">>, <<"+", "5">>,
      Display(I64Max) }

\* More tokens for the single-token runs: padded on the right, zero-padded,
\* negative zero, negative, a sign alone, a sign twice, digits then a letter, and
\* more digits than any i64 has.
OddTokens ==
    { <<"5", " ">>, <<"0", "0", "7">>, <<"-", "0">>, <<"-", "1", "5", "0", "0">>, <<"+", "0", "1", "0">>,
      <<"-">>, <<"+">>, <<"-", "-", "1">>, <<"1", "a">>,
      Display(I64Max) \o <<"0", "0", "0">>,
      <<"-">> \o Display(I64Max) \o <<"0", "0", "0">>,
      <<"0", "0", "0">> \o Display(I64Max) }

\* The values the single-token runs are taken around: zero, the scale
\* factors, the first and last representable instant in each unit, and the
\* ends of i64.
Boundaries ==
    { Zero,
      <<0, 0, 0, 0, 0, 1, 0>>, Neg(<<0, 0, 0, 0, 0, 1, 0>>),
      <<0, 0, 0, 0, 1, 0, 0>>, Neg(<<0, 0, 0, 0, 1, 0, 0>>),
      <<0, 0, 0, 1, 0, 0, 0>>, Neg(<<0, 0, 0, 1, 0, 0, 0>>),
      MaxSecs, MinSecs,
      MulAdd1000(MaxSecs, 999), MulAdd1000(MinSecs, 0),
      MulAdd1000(MulAdd1000(MaxSecs, 999), 999),
      MulAdd1000(MulAdd1000(MinSecs, 0), 0),
      I64Max, I64Min }

WidePool == {Display(AddSmall(b, d)) : b \in Boundaries, d \in (0 - Spread)..Spread}

\* All token lists of 1 .. n tokens of the pool.
TokenLists(n) == UNION {[1..k -> TokenPool] : k \in 1..n}

\* What chrono::offset::Utc::now() may return.
NowInstants ==
    { Instant(<<0, 0, 0, 1, 725, 932, 348>>, 123456789),
      Instant(<<0, 0, 0, 1, 725, 932, 349>>, 0) }

(***************************************************************************)
(* The run of main                                                         *)
(***************************************************************************)

VARIABLES
    timestamp,  \* cli.timestamp: NoTimestamp or the Vec<String> of tokens
    format,     \* cli.format
    now,        \* cli.now
    pc,         \* where main is: "main", "filter_map", "for_each", "now",
                \* "done" (returned Ok(())), "panicked"
    idx,        \* the iterator's position in timestamps (1-based)
    item,       \* the i64 filter_map handed to for_each
    stdout,     \* the reports printed, in order
    errlog,     \* the log::error! records issued, in order
    exit,       \* "none" while running, then "success" or "panic"
    outAt,      \* history: for each report, the position of its token (0: now)
    errAt       \* history: for each error record, the position of its token

vars ==
    <<timestamp, format, now, pc, idx, item, stdout, errlog, exit, outAt, errAt>>

cli == <<timestamp, format, now>>

Init ==
    /\ timestamp \in {NoTimestamp} \cup TokenLists(MaxTokens)
                        \cup {<<t>> : t \in WidePool \cup OddTokens}
    /\ format \in Formats
    /\ now \in BOOLEAN
    /\ pc = "main"
    /\ idx = 1
    /\ item = Zero
    /\ stdout = <<>>
    /\ errlog = <<>>
    /\ exit = "none"
    /\ outAt = <<>>
    /\ errAt = <<>>

\* An absent argument that falls back to the current time.
NoTimestampsUsesNow ==
    /\ pc = "main"
    /\ timestamp = NoTimestamp
    /\ \E t \in NowInstants : stdout' = Append(stdout, NowReport(t))
    /\ outAt' = Append(outAt, 0)
    /\ pc' = "done"
    /\ exit' = "success"
    /\ UNCHANGED <<cli, idx, item, errlog, errAt>>

\* if let Some(timestamps) = &cli.timestamp: the argument is absent.
NoTimestamps ==
    /\ pc = "main"
    /\ timestamp = NoTimestamp
    /\ pc' = "now"
    /\ UNCHANGED <<cli, idx, item, stdout, errlog, exit, outAt, errAt>>

\* if let Some(timestamps) = &cli.timestamp: timestamps.iter() starts.
StartIter ==
    /\ pc = "main"
    /\ timestamp # NoTimestamp
    /\ pc' = "filter_map"
    /\ UNCHANGED <<cli, idx, item, stdout, errlog, exit, outAt, errAt>>

\* A blank token handled like any other token that does not parse.
FilterMapBlankLogs ==
    /\ pc = "filter_map"
    /\ idx <= Len(timestamp)
    /\ Trim(timestamp[idx]) = <<>>
    /\ errlog' = Append(errlog,
                        Diagnostic(timestamp[idx], ParseI64(timestamp[idx]).kind))
    /\ errAt' = Append(errAt, idx)
    /\ idx' = idx + 1
    /\ UNCHANGED <<cli, pc, item, stdout, exit, outAt>>

\* filter_map closure: val.trim().is_empty() => None, without a message.
FilterMapBlank ==
    /\ pc = "filter_map"
    /\ idx <= Len(timestamp)
    /\ Trim(timestamp[idx]) = <<>>
    /\ idx' = idx + 1
    /\ UNCHANGED <<cli, pc, item, stdout, errlog, exit, outAt, errAt>>

\* filter_map closure: val.parse::<i64>() is Ok(parsed) => Some(parsed),
\* which the iterator hands to the for_each closure at once.
FilterMapOk ==
    /\ pc = "filter_map"
    /\ idx <= Len(timestamp)
    /\ Trim(timestamp[idx]) # <<>>
    /\ ParseI64(timestamp[idx]).ok
    /\ item' = ParseI64(timestamp[idx]).val
    /\ pc' = "for_each"
    /\ UNCHANGED <<cli, idx, stdout, errlog, exit, outAt, errAt>>

\* A parse failure that ends the run instead of skipping the token.
FilterMapErrAborts ==
    /\ pc = "filter_map"
    /\ idx <= Len(timestamp)
    /\ Trim(timestamp[idx]) # <<>>
    /\ ~ParseI64(timestamp[idx]).ok
    /\ errlog' = Append(errlog,
                        Diagnostic(timestamp[idx], ParseI64(timestamp[idx]).kind))
    /\ errAt' = Append(errAt, idx)
    /\ pc' = "panicked"
    /\ exit' = "panic"
    /\ UNCHANGED <<cli, idx, item, stdout, outAt>>

\* filter_map closure: val.parse::<i64>() is Err(err) => log::error!, None.
FilterMapErr ==
    /\ pc = "filter_map"
    /\ idx <= Len(timestamp)
    /\ Trim(timestamp[idx]) # <<>>
    /\ ~ParseI64(timestamp[idx]).ok
    /\ errlog' = Append(errlog,
                        Diagnostic(timestamp[idx], ParseI64(timestamp[idx]).kind))
    /\ errAt' = Append(errAt, idx)
    /\ idx' = idx + 1
    /\ UNCHANGED <<cli, pc, item, stdout, exit, outAt>>

\* A report put in front of the earlier ones.
ForEachPrintFirst ==
    /\ pc = "for_each"
    /\ Decode(format, item).some
    /\ stdout' = <<TokenReport(format, item, Decode(format, item).val)>> \o stdout
    /\ outAt' = <<idx>> \o outAt
    /\ idx' = idx + 1
    /\ pc' = "filter_map"
    /\ UNCHANGED <<cli, item, errlog, exit, errAt>>

\* for_each closure: the value decodes, its report is printed.
ForEachPrint ==
    /\ pc = "for_each"
    /\ Decode(format, item).some
    /\ stdout' = Append(stdout, TokenReport(format, item, Decode(format, item).val))
    /\ outAt' = Append(outAt, idx)
    /\ idx' = idx + 1
    /\ pc' = "filter_map"
    /\ UNCHANGED <<cli, item, errlog, exit, errAt>>

\* A range failure that skips the value and goes on.
ForEachSkipsOutOfRange ==
    /\ pc = "for_each"
    /\ ~Decode(format, item).some
    /\ idx' = idx + 1
    /\ pc' = "filter_map"
    /\ UNCHANGED <<cli, item, stdout, errlog, exit, outAt, errAt>>

\* for_each closure: expect("input should be a valid time") panics; the
\* process ends with the panic's exit status.
ForEachPanic ==
    /\ pc = "for_each"
    /\ ~Decode(format, item).some
    /\ pc' = "panicked"
    /\ exit' = "panic"
    /\ UNCHANGED <<cli, idx, item, stdout, errlog, outAt, errAt>>

\* The iterator is exhausted.
IterEnd ==
    /\ pc = "filter_map"
    /\ idx > Len(timestamp)
    /\ pc' = "now"
    /\ UNCHANGED <<cli, idx, item, stdout, errlog, exit, outAt, errAt>>

\* if cli.now { println!("(now): ...") }; Ok(())
PrintNow ==
    /\ pc = "now"
    /\ now
    /\ \E t \in NowInstants : stdout' = Append(stdout, NowReport(t))
    /\ outAt' = Append(outAt, 0)
    /\ pc' = "done"
    /\ exit' = "success"
    /\ UNCHANGED <<cli, idx, item, errlog, errAt>>

\* cli.now is false; Ok(())
SkipNow ==
    /\ pc = "now"
    /\ ~now
    /\ pc' = "done"
    /\ exit' = "success"
    /\ UNCHANGED <<cli, idx, item, stdout, errlog, outAt, errAt>>

Next ==
    \/ NoTimestamps
    \/ StartIter
    \/ FilterMapBlank
    \/ FilterMapOk
    \/ FilterMapErr
    \/ ForEachPrint
    \/ ForEachPanic
    \/ IterEnd
    \/ PrintNow
    \/ SkipNow

Spec == Init /\ [][Next]_vars

(***************************************************************************)
(* Vocabulary of the properties                                            *)
(***************************************************************************)

\* The tokens of the run (none when the argument is absent).
Tokens == IF timestamp = NoTimestamp THEN <<>> ELSE timestamp

Positions == 1..Len(Tokens)

\* Token i is empty or whitespace only.
Blank(i) == Trim(Tokens[i]) = <<>>

\* Every token of the model's inputs, and what val.parse::<i64>() makes of
\* each (tabulated once).
AllTokens == TokenPool \cup WidePool \cup OddTokens

Parsed == [t \in AllTokens |-> ParseI64(t)]

\* Token i, as given, is an i64; Value(i) is that integer.
Parses(i) == Parsed[Tokens[i]].ok

Value(i) == Parsed[Tokens[i]].val

\* The first and last value of each unit that is a representable date,
\* written out from MinSecs and MaxSecs (nanoseconds: all of i64).
RangeLo ==
    [f \in Formats |->
        CASE f = "seconds" -> MinSecs
          [] f = "milliseconds" -> MulAdd1000(MinSecs, 0)
          [] f = "microseconds" -> MulAdd1000(MulAdd1000(MinSecs, 0), 0)
          [] f = "nanoseconds" -> I64Min]

RangeHi ==
    [f \in Formats |->
        CASE f = "seconds" -> MaxSecs
          [] f = "milliseconds" -> MulAdd1000(MaxSecs, 999)
          [] f = "microseconds" -> MulAdd1000(MulAdd1000(MaxSecs, 999), 999)
          [] f = "nanoseconds" -> I64Max]

OutOfRange(f, v) == Less(v, RangeLo[f]) \/ Less(RangeHi[f], v)

\* Token i is an i64 inside / outside the dates of the selected unit.
InRangeAt(i) == Parses(i) /\ ~OutOfRange(format, Value(i))

OutOfRangeAt(i) == Parses(i) /\ OutOfRange(format, Value(i))

\* Token i is neither blank nor an i64.
Invalid(i) == ~Blank(i) /\ ~Parses(i)

\* The reports / error records that token i produced.
ReportsOf(i) == {k \in DOMAIN outAt : outAt[k] = i}

DiagnosticsOf(i) == {k \in DOMAIN errAt : errAt[k] = i}

Reported(i) == ReportsOf(i) # {}

\* An error record naming token i.
Diagnosed(i) == \E k \in DiagnosticsOf(i) : errlog[k].token = Tokens[i]

NowReports == {k \in DOMAIN outAt : outAt[k] = 0}

(***************************************************************************)
(* Properties                                                              *)
(***************************************************************************)

\* C1: partial failure of the batch.  A token that is not blank and that
\* val.parse::<i64>() rejects (blank tokens are C9's, padded ones C4's)
\* gets exactly one error record naming it once the iterator has passed it,
\* never a report, and never ends the run: the only abort is a range
\* failure of an i64 token.  Every in-range i64 token the iterator has
\* passed has its report, whatever came before it, and a run without an
\* out-of-range token never panics and returns with success.
C1_PartialFailure ==
    /\ \A i \in Positions :
        /\ Invalid(i) => ~Reported(i)
        /\ (Invalid(i) /\ i < idx) =>
                Diagnosed(i) /\ Cardinality(DiagnosticsOf(i)) = 1
        /\ (InRangeAt(i) /\ i < idx) => Reported(i)
    /\ exit = "panic" => idx \in Positions /\ OutOfRangeAt(idx)
    /\ (\A i \in Positions : ~OutOfRangeAt(i)) => exit # "panic"
    /\ pc = "done" => exit = "success" /\ idx = Len(Tokens) + 1

\* A finished, successful run in which an in-range token that follows a
\* rejected token has been reported.
C1_Witness ==
    /\ pc = "done"
    /\ exit = "success"
    /\ \E i, j \in Positions :
        i < j /\ Invalid(i) /\ Diagnosed(i) /\ InRangeAt(j) /\ Reported(j)

TruncDiv(v, k) ==
    IF v[1] < 0 THEN Neg(DivEuclid(Neg(v), k)) ELSE DivEuclid(v, k)

\* v in unit f converted to milliseconds, dividing toward zero ...
MillisTruncated(f, v) ==
    CASE f = "seconds" -> MulAdd1000(v, 0)
      [] f = "milliseconds" -> v
      [] f = "microseconds" -> TruncDiv(v, 1)
      [] f = "nanoseconds" -> TruncDiv(v, 2)

\* ... and dividing toward negative infinity.
MillisFloored(f, v) ==
    CASE f = "seconds" -> MulAdd1000(v, 0)
      [] f = "milliseconds" -> v
      [] f = "microseconds" -> DivEuclid(v, 1)
      [] f = "nanoseconds" -> DivEuclid(v, 2)

\* C3 as stated: the unix_ms of every token's report is the token's value
\* converted to milliseconds with division truncating toward zero.
C3_ScalingTruncates ==
    \A k \in DOMAIN stdout :
        outAt[k] # 0 =>
            stdout[k].time.unix_ms = MillisTruncated(format, Value(outAt[k]))

\* C3 as amended: the unix_ms of every token's report is the token's value
\* converted to milliseconds with floor division (toward negative
\* infinity): v * 1000, v, floor(v / 1000), floor(v / 1000000); and
\* unix_s is the floor of the value in seconds.
C3_ScalingFloors ==
    \A k \in DOMAIN stdout :
        outAt[k] # 0 =>
            /\ stdout[k].time.unix_ms = MillisFloored(format, Value(outAt[k]))
            /\ stdout[k].time.unix_s = DivEuclid(stdout[k].time.unix_ms, 1)

\* -1 microsecond has been reported, as millisecond -1.
C3_Witness ==
    \E k \in DOMAIN stdout :
        /\ outAt[k] # 0
        /\ format = "microseconds"
        /\ Value(outAt[k]) = Neg(<<0, 0, 0, 0, 0, 0, 1>>)
        /\ stdout[k].time.unix_ms = Neg(<<0, 0, 0, 0, 0, 0, 1>>)

\* C4 as stated: validity is decided on the trimmed token, so every token
\* the iterator has passed whose trimmed form is an in-range i64 has its
\* report, and only tokens whose trimmed form is no i64 get an error record.
C4_TrimmedValidity ==
    \A i \in Positions :
        LET p == ParseI64(Trim(Tokens[i]))
        IN  /\ (i < idx /\ p.ok /\ ~OutOfRange(format, p.val)) => Reported(i)
            /\ DiagnosticsOf(i) # {} => ~p.ok

\* C5: output order.  The reports of tokens are printed in the order of
\* their tokens, at most one each, each the report of its own token; a
\* "now" report is the last line printed and is printed only when the flag
\* is set.  On return every i64 token has exactly one report and the "now"
\* report is there iff the flag is set.
C5_OutputOrder ==
    /\ Len(outAt) = Len(stdout)
    /\ \A k, l \in DOMAIN outAt :
            k < l => outAt[l] = 0 \/ (outAt[k] # 0 /\ outAt[k] < outAt[l])
    /\ \A k \in DOMAIN outAt :
            IF outAt[k] = 0
            THEN now /\ k = Len(outAt) /\ stdout[k] \in {NowReport(t) : t \in NowInstants}
            ELSE /\ outAt[k] \in Positions
                 /\ Parses(outAt[k])
                 /\ stdout[k].time.utc = Decode(format, Value(outAt[k])).val
                 /\ stdout[k].head # <<"n", "o", "w">>
    /\ pc = "done" =>
            /\ \A i \in Positions :
                    Cardinality(ReportsOf(i)) = (IF Parses(i) THEN 1 ELSE 0)
            /\ Cardinality(NowReports) = (IF now THEN 1 ELSE 0)

\* A finished run that printed the reports of tokens 1 and 3 (token 2 was
\* skipped) and then the "now" report.
C5_Witness ==
    /\ pc = "done"
    /\ outAt = <<1, 3, 0>>
    /\ Value(1) # Value(3)

\* C6 as stated (the doc comment of Cli::timestamp): without a timestamp
\* argument the current time is used, so the finished run has printed the
\* report of the current time, whether or not the now flag is set.
C6_DefaultsToCurrentTime ==
    (pc = "done" /\ timestamp = NoTimestamp) => NowReports # {}

C8_EchoesRawToken ==
    \A k \in DOMAIN stdout :
        stdout[k].head =
            IF outAt[k] = 0 THEN <<"n", "o", "w">>
            ELSE Tokens[outAt[k]] \o <<" ">> \o Symbol(format)

\* The canonical decimal text of an integer token: no "+", no leading
\* zeros, "-" kept unless the digits are all zero.
Canonical(tok) ==
    LET signed == Head(tok) \in {"+", "-"}
        sig == StripZeros(IF signed THEN Tail(tok) ELSE tok)
    IN  IF Head(tok) = "-" /\ sig # <<"0">> THEN <<"-">> \o sig ELSE sig

\* C8 as amended: the text before the unit symbol is the parsed integer in
\* canonical decimal form, which is the token as given exactly when the
\* token is written canonically; the report of the current time is headed
\* "now".
C8_PrintsParsedValue ==
    \A k \in DOMAIN stdout :
        IF outAt[k] = 0
        THEN stdout[k].head = <<"n", "o", "w">>
        ELSE LET tok == Tokens[outAt[k]]
             IN  /\ stdout[k].head = Canonical(tok) \o <<" ">> \o Symbol(format)
                 /\ (stdout[k].head = tok \o <<" ">> \o Symbol(format))
                        <=> (tok = Canonical(tok))

\* The token "+5" has been reported under the head "5 s".
C8_Witness ==
    \E k \in DOMAIN stdout :
        /\ outAt[k] # 0
        /\ Tokens[outAt[k]] = <<"+", "5">>
        /\ stdout[k].head = <<"5", " ", "s">>

\* The token list without its blank tokens.
NonBlank(l) == SelectSeq(l, LAMBDA t : Trim(t) # <<>>)

\* What a list of tokens makes the batch print, log, and whether it ends in
\* a panic, told token by token up to the first out-of-range value.
RECURSIVE BatchReports(_, _)
BatchReports(l, f) ==
    IF l = <<>> THEN <<>>
    ELSE LET p == Parsed[Head(l)]
         IN  IF ~p.ok THEN BatchReports(Tail(l), f)
             ELSE IF OutOfRange(f, p.val) THEN <<>>
             ELSE <<TokenReport(f, p.val, Decode(f, p.val).val)>>
                      \o BatchReports(Tail(l), f)

RECURSIVE BatchErrors(_, _)
BatchErrors(l, f) ==
    IF l = <<>> THEN <<>>
    ELSE LET p == Parsed[Head(l)]
         IN  IF ~p.ok
             THEN <<Diagnostic(Head(l), p.kind)>> \o BatchErrors(Tail(l), f)
             ELSE IF OutOfRange(f, p.val) THEN <<>>
             ELSE BatchErrors(Tail(l), f)

BatchPanics(l, f) ==
    \E i \in 1..Len(l) : Parsed[l[i]].ok /\ OutOfRange(f, Parsed[l[i]].val)

\* The reports of tokens on stdout (all but a final "now" report).
TokenReports ==
    IF NowReports # {} THEN SubSeq(stdout, 1, Len(stdout) - 1) ELSE stdout

\* C9: blank tokens leave no trace.  A blank token never has a report or
\* an error record, and once the batch is over (or has panicked) the
\* reports printed, the error records logged and the way the batch ended
\* are those of the token list with its blank tokens removed; a run on that
\* shorter list satisfies the same equation, so the two runs agree.
C9_BlankTokensDropped ==
    /\ \A i \in Positions :
            Blank(i) => ReportsOf(i) = {} /\ DiagnosticsOf(i) = {}
    /\ pc \in {"now", "done", "panicked"} =>
            /\ TokenReports = BatchReports(NonBlank(Tokens), format)
            /\ errlog = BatchErrors(NonBlank(Tokens), format)
            /\ (pc = "panicked") <=> BatchPanics(NonBlank(Tokens), format)

\* A finished run over three tokens, the middle one blank, the others
\* reported.
C9_Witness ==
    /\ pc = "done"
    /\ Len(Tokens) = 3
    /\ Blank(2)
    /\ Reported(1)
    /\ Reported(3)
    /\ errlog = <<>>

\* C10: one pass, cut at a range failure.  Nothing is ever printed or
\* logged for a token the iterator has not passed, and the iterator never
\* passes an out-of-range i64 token, so a list that holds one never gets a
\* "now" report.  In the panicked state every in-range token before the
\* failing position has its report and every rejected token before it its
\* error record, no token from that position on has either, and the run
\* takes no further step.
C10_AbortCutsRun ==
    /\ \A i \in Positions :
            /\ (ReportsOf(i) # {} \/ DiagnosticsOf(i) # {}) => i < idx
            /\ OutOfRangeAt(i) => idx <= i /\ NowReports = {} /\ pc # "done"
    /\ pc = "panicked" =>
            /\ idx \in Positions
            /\ OutOfRangeAt(idx)
            /\ \A j \in Positions :
                    /\ (j < idx /\ InRangeAt(j)) => Reported(j)
                    /\ (j < idx /\ Invalid(j)) => Diagnosed(j)
                    /\ j >= idx => ReportsOf(j) = {} /\ DiagnosticsOf(j) = {}
            /\ NowReports = {}
            /\ ~ENABLED Next

\* With the now flag set, the run has panicked on the second of three
\* tokens after reporting the first; the third is a good token.
C10_Witness ==
    /\ pc = "panicked"
    /\ now
    /\ Len(Tokens) = 3
    /\ idx = 2
    /\ Reported(1)
    /\ InRangeAt(3)
    /\ Len(stdout) = 1

====
